---- MODULE Spec2Model ----
(***************************************************************************)
(* Model of pylib/bastok/parser.py: the Parser class (confirmed and        *)
(* unconfirmed parse points), the PState class (pos, olist) and the        *)
(* parsing functions byte(), toksort() and toktrans().                     *)
(*                                                                         *)
(* Python sequences (str, bytes) are modelled as TLA+ sequences of         *)
(* one-character strings; Python index i is TLA+ index i+1.                *)
(***************************************************************************)
EXTENDS Integers, Sequences, FiniteSets, TLC

\* ------------------------------------------------------------------ bounds
MaxLen == 2        \* longest input sequence
MaxTab == 2        \* most entries in a token table
MaxOut == 2        \* most fragments in olist
MaxNeg == 1        \* consume(n) is tried for n down to -MaxNeg, pos kept >= -MaxNeg
MaxDepth == 1      \* deepest nesting of start()/confirm() routines
MaxIter == 4       \* most iterations of the driver loop that are followed

\* ------------------------------------------------------------- value sets
\* Elements of a str input, and of a bytes input (the codec's native codes).
Chars == {"a", "b"}
Natives == {"A", "B"}

\* Values returned by a call: None, or a value v.
None == [none |-> TRUE]
Some(v) == [none |-> FALSE, val |-> v]

\* No exception was raised.
NoExc == "none"

\* All sequences over S of length at most n.
SeqsUpTo(S, n) == UNION {[1..k -> S] : k \in 0..n}

\* Types of output fragments: str, bytes, and S, a subclass of str.
Types == {"str", "S", "bytes"}

\* issubclass(t, u) for the types above.
IsSubclass(t, u) == t = u \/ (t = "S" /\ u = "str")

\* isinstance(x, type(y)) for fragments x, y.
IsInstance(x, y) == IsSubclass(x.ty, y.ty)

\* Output fragments: a type and a content.
Frags == [ty : Types, val : SeqsUpTo(Chars, 1) \ {<<>>}]

\* Token tables: sequences of (x, y) pairs.
Keys == {<<>>, <<"a">>, <<"b">>, <<"a", "b">>}
TabVals == {f \in Frags : f.val = <<"a">> /\ f.ty \in {"str", "bytes"}}
Entries == Keys \X TabVals
Tables == SeqsUpTo(Entries, MaxTab)

\* genf arguments of byte(): None, or a function making a fragment of a type.
GenFs == {"None"} \cup Types
genf(g, x) == [ty |-> g, val |-> <<x>>]

\* err arguments of byte(): None, or a message (the default one).
Errs == {"None", "unexpected end of input"}

VARIABLES
    input,      \* Parser.input / PState.input
    pos_conf,   \* Parser.pos_conf
    pos_un,     \* Parser.pos_un
    pos,        \* PState.pos
    olist,      \* Parser.olist / PState.olist
    codec,      \* Parser.codec
    toktab,     \* the token table the parser was built with
    frames,     \* the parsing routines in progress, innermost last
    attempt,    \* pos_conf at the latest start() and the elements matched since
    iters,      \* iterations of the driver loop so far
    last        \* the last call: its name, argument, result and pre-state

vars == <<input, pos_conf, pos_un, pos, olist, codec, toktab, frames, attempt,
          iters, last>>

\* ------------------------------------------------------- Python sequences
\* A slice bound i of a sequence of length n, as Python normalises it.
PyIdx(i, n) == IF i < 0 THEN (IF i + n < 0 THEN 0 ELSE i + n)
               ELSE (IF i > n THEN n ELSE i)

\* s[i:j]
Slice(s, i, j) ==
    LET lo == PyIdx(i, Len(s))
        hi == PyIdx(j, Len(s))
    IN  IF lo >= hi THEN <<>> ELSE SubSeq(s, lo + 1, hi)

\* s[i:]
SliceFrom(s, i) == Slice(s, i, Len(s))

\* startswith() that compares only as much as both sequences hold.
startswithShort(r, x) ==
    LET m == IF Len(x) <= Len(r) THEN Len(x) ELSE Len(r)
    IN  SubSeq(r, 1, m) = SubSeq(x, 1, m)

\* r.startswith(x)
startswith(r, x) == Len(x) <= Len(r) /\ SubSeq(r, 1, Len(x)) = x

\* ------------------------------------------------------------------ PState
\* PState.finished()
finished == pos >= Len(input)

\* PState.remain()
remain == SliceFrom(input, pos)

\* consume() that moves pos before it checks the end of input.
consumeMoveFirst(p, n) ==
    IF p + n > Len(input)
    THEN [pos |-> p + n, ret |-> None, exc |-> "ParseError"]
    ELSE [pos |-> p + n, ret |-> Some(Slice(input, (p + n) - n, p + n)),
          exc |-> NoExc]

\* PState.consume(n) from position p: the new pos, the value returned and
\* the exception raised.
consume(p, n) ==
    IF p + n > Len(input)
    THEN [pos |-> p, ret |-> None, exc |-> "ParseError"]
    ELSE [pos |-> p + n, ret |-> Some(Slice(input, (p + n) - n, p + n)),
          exc |-> NoExc]

\* generate() with the arguments of isinstance() swapped.
generateSwapped(ol, x) ==
    IF Len(ol) = 0 \/ IsInstance(ol[1], x)
    THEN [olist |-> Append(ol, x), exc |-> NoExc]
    ELSE [olist |-> ol, exc |-> "ParseError"]

\* PState.generate(x) on output list ol: the new list and the exception.
generate(ol, x) ==
    IF Len(ol) = 0 \/ IsInstance(x, ol[1])
    THEN [olist |-> Append(ol, x), exc |-> NoExc]
    ELSE [olist |-> ol, exc |-> "ParseError"]

\* PState.peek(): the value returned and the exception raised.
peek ==
    IF pos >= Len(input) THEN [ret |-> None, exc |-> NoExc]
    ELSE IF pos < 0 - Len(input) THEN [ret |-> None, exc |-> "IndexError"]
    ELSE [ret |-> Some(input[(IF pos < 0 THEN pos + Len(input) ELSE pos) + 1]),
          exc |-> NoExc]

\* cls().join(olist)
RECURSIVE join(_)
join(ol) == IF ol = <<>> THEN <<>> ELSE ol[1].val \o join(Tail(ol))

\* output() that joins the fragments last to first.
RECURSIVE joinReversed(_)
joinReversed(ol) == IF ol = <<>> THEN <<>> ELSE joinReversed(Tail(ol)) \o ol[1].val
outputReversed == IF Len(olist) = 0 THEN None ELSE Some(joinReversed(olist))

\* PState.output()
output == IF Len(olist) = 0 THEN None ELSE Some(join(olist))

\* The record kept of a call.
Call(op, arg, ret, exc) ==
    [op |-> op, arg |-> arg, ret |-> ret, exc |-> exc,
     pos0 |-> pos, olist0 |-> olist, conf0 |-> pos_conf, un0 |-> pos_un]

\* byte() that returns the next element without consuming it.
bytePeek(g, e) ==
    IF finished
    THEN [pos |-> pos, olist |-> olist, ret |-> None,
          exc |-> IF e = "None" THEN NoExc ELSE "ParseError"]
    ELSE [pos |-> pos, olist |-> olist, ret |-> peek.ret, exc |-> peek.exc]

\* byte(p, genf=g, err=e): the new pos and olist, the value returned and the
\* exception raised.
byte(g, e) ==
    IF finished
    THEN [pos |-> pos, olist |-> olist, ret |-> None,
          exc |-> IF e = "None" THEN NoExc ELSE "ParseError"]
    ELSE LET c == consume(pos, 1) IN
         IF c.exc # NoExc
         THEN [pos |-> c.pos, olist |-> olist, ret |-> None, exc |-> c.exc]
         ELSE IF c.ret.val = <<>>
         THEN [pos |-> c.pos, olist |-> olist, ret |-> None, exc |-> "IndexError"]
         ELSE LET x == c.ret.val[1] IN
              IF g = "None"
              THEN [pos |-> c.pos, olist |-> olist, ret |-> Some(x), exc |-> NoExc]
              ELSE LET r == generate(olist, genf(g, x)) IN
                   IF r.exc # NoExc
                   THEN [pos |-> c.pos, olist |-> r.olist, ret |-> None,
                         exc |-> r.exc]
                   ELSE [pos |-> c.pos, olist |-> r.olist, ret |-> Some(x),
                         exc |-> NoExc]

\* sorted(res, key=len of t[0], reverse=True): a stable sort, so e goes after
\* every entry whose key is at least as long.
RECURSIVE InsertByLen(_, _)
InsertByLen(s, e) ==
    IF s = <<>> THEN <<e>>
    ELSE IF Len(Head(s)[1]) >= Len(e[1])
         THEN <<Head(s)>> \o InsertByLen(Tail(s), e)
         ELSE <<e>> \o s

RECURSIVE SortByLen(_)
SortByLen(res) ==
    IF res = <<>> THEN <<>>
    ELSE InsertByLen(SortByLen(SubSeq(res, 1, Len(res) - 1)), res[Len(res)])

\* toksort() that projects the fields and leaves the order as it is.
toksortUnsorted(tab, field0, field1) ==
    [i \in 1..Len(tab) |-> <<tab[i][field0 + 1], tab[i][field1 + 1]>>]

\* toksort(toktab, field0, field1)
toksort(tab, field0, field1) ==
    LET res == [i \in 1..Len(tab) |-> <<tab[i][field0 + 1], tab[i][field1 + 1]>>]
    IN  SortByLen(res)

\* The index of the last entry of tab, from i on, whose x the remaining input
\* starts with; 0 when there is none.
LastMatch(tab, i) ==
    LET m == {j \in i..Len(tab) : startswith(remain, tab[j][1])}
    IN  IF m = {} THEN 0 ELSE CHOOSE j \in m : \A h \in m : h <= j

\* The index of the first entry of tab, from i on, whose x the remaining
\* input starts with; 0 when there is none.
RECURSIVE FirstMatch(_, _)
FirstMatch(tab, i) ==
    IF i > Len(tab) THEN 0
    ELSE IF startswith(remain, tab[i][1]) THEN i
    ELSE FirstMatch(tab, i + 1)

\* toktrans(p, tab): the new pos and olist, the value returned and the
\* exception raised.
toktrans(tab) ==
    LET i == FirstMatch(tab, 1) IN
    IF i = 0
    THEN [pos |-> pos, olist |-> olist, ret |-> None, exc |-> NoExc]
    ELSE LET x == tab[i][1]
             y == tab[i][2]
             c == consume(pos, Len(x))
         IN  IF c.exc # NoExc
             THEN [pos |-> c.pos, olist |-> olist, ret |-> None, exc |-> c.exc]
             ELSE LET r == generate(olist, y) IN
                  IF r.exc # NoExc
                  THEN [pos |-> c.pos, olist |-> r.olist, ret |-> None,
                        exc |-> r.exc]
                  ELSE [pos |-> c.pos, olist |-> r.olist, ret |-> Some(x),
                        exc |-> NoExc]

\* ---------------------------------------------------------- PState actions
\* PState(input), used without a token table.
InitPState ==
    /\ input \in SeqsUpTo(Chars, MaxLen)
    /\ toktab = <<>>
    /\ pos = 0
    /\ olist = <<>>
    /\ pos_conf = 0
    /\ pos_un = 0
    /\ codec = "None"
    /\ frames = <<>>
    /\ attempt = [base |-> 0, adv |-> 0]
    /\ iters = 0
    /\ last = Call("init", 0, None, NoExc)

Consume(n) ==
    LET c == consume(pos, n) IN
    /\ c.pos >= 0 - MaxNeg
    /\ pos' = c.pos
    /\ last' = Call("consume", n, c.ret, c.exc)
    /\ UNCHANGED <<input, toktab, olist, pos_conf, pos_un, codec, frames, attempt, iters>>

Peek ==
    /\ last' = Call("peek", 0, peek.ret, peek.exc)
    /\ UNCHANGED <<input, toktab, pos, olist, pos_conf, pos_un, codec, frames, attempt, iters>>

Generate(x) ==
    LET r == generate(olist, x) IN
    /\ Len(r.olist) <= MaxOut
    /\ olist' = r.olist
    /\ last' = Call("generate", x, None, r.exc)
    /\ UNCHANGED <<input, toktab, pos, pos_conf, pos_un, codec, frames, attempt, iters>>

Output ==
    /\ last' = Call("output", 0, output, NoExc)
    /\ UNCHANGED <<input, toktab, pos, olist, pos_conf, pos_un, codec, frames, attempt, iters>>

Byte(g, e) ==
    LET r == byte(g, e) IN
    /\ Len(r.olist) <= MaxOut
    /\ pos' = r.pos
    /\ olist' = r.olist
    /\ last' = Call("byte", [genf |-> g, err |-> e], r.ret, r.exc)
    /\ UNCHANGED <<input, toktab, pos_conf, pos_un, codec, frames, attempt, iters>>

\* toktrans(p, toksort(toktab)) when srt, toktrans(p, toktab) otherwise.
Toktrans(srt) ==
    LET r == toktrans(IF srt THEN toksort(toktab, 0, 1) ELSE toktab) IN
    /\ Len(r.olist) <= MaxOut
    /\ pos' = r.pos
    /\ olist' = r.olist
    /\ last' = Call("toktrans", srt, r.ret, r.exc)
    /\ UNCHANGED <<input, toktab, pos_conf, pos_un, codec, frames, attempt, iters>>

NextPState ==
    \/ \E n \in (0 - MaxNeg)..(MaxLen + 1) : Consume(n)
    \/ Peek
    \/ \E x \in Frags : Generate(x)
    \/ Output
    \/ \E g \in GenFs, e \in Errs : Byte(g, e)

SpecPState == InitPState /\ [][NextPState]_vars

\* PState(input), with the token table of the parser using it.
InitTok ==
    /\ input \in SeqsUpTo(Chars, MaxLen)
    /\ toktab \in Tables
    /\ pos = 0
    /\ olist = <<>>
    /\ pos_conf = 0
    /\ pos_un = 0
    /\ codec = "None"
    /\ frames = <<>>
    /\ attempt = [base |-> 0, adv |-> 0]
    /\ iters = 0
    /\ last = Call("init", 0, None, NoExc)

NextTok ==
    \/ \E srt \in BOOLEAN : Toktrans(srt)
    \/ \E e \in Errs : Byte("None", e)

SpecTok == InitTok /\ [][NextTok]_vars

\* ------------------------------------------------------------------ Parser
\* isinstance(self.input, str): a Parser over bytes is given a codec.
IsStr == codec = "None"

\* codec.native(c): the native code of a Unicode character.
native(c) == IF c = "a" THEN "A" ELSE "B"

\* Literals passed to string().
Lits == Keys

\* Fragments appended to Parser.olist.
ParserFrags == {f \in Frags : f.ty = "str" /\ f.val = <<"a">>}

\* Parser.remain()
ParserRemain == SliceFrom(input, pos_conf)

\* start() that leaves the unconfirmed parse point where it is.
startKeep == pos_un

\* Parser.start(): the new pos_un.
start == pos_conf

\* Parser.confirm(): the new pos_conf.
confirm == pos_un

\* string() that compares the literal untranslated.
stringNoCodec(s) ==
    LET expected == s
        next == Slice(input, pos_un, pos_un + Len(expected))
    IN  IF expected = next
        THEN [pos_un |-> pos_un + Len(expected), ret |-> Some(next)]
        ELSE [pos_un |-> pos_un, ret |-> None]

\* string() that advances whether or not the input matched.
stringAlways(s) ==
    LET expected == IF IsStr THEN s ELSE [i \in 1..Len(s) |-> native(s[i])]
        next == Slice(input, pos_un, pos_un + Len(expected))
    IN  [pos_un |-> pos_un + Len(expected),
         ret |-> IF expected = next THEN Some(next) ELSE None]

\* Parser.string(s): the new pos_un and the value returned.
string(s) ==
    LET expected == IF IsStr THEN s ELSE [i \in 1..Len(s) |-> native(s[i])]
        next == Slice(input, pos_un, pos_un + Len(expected))
    IN  IF expected = next
        THEN [pos_un |-> pos_un + Len(expected), ret |-> Some(next)]
        ELSE [pos_un |-> pos_un, ret |-> None]

\* Parser(input, codec)
InitParser ==
    /\ \/ input \in SeqsUpTo(Chars, MaxLen) /\ codec = "None"
       \/ input \in SeqsUpTo(Natives, MaxLen) /\ codec = "charset"
    /\ pos_conf = 0
    /\ pos_un = 0
    /\ olist = <<>>
    /\ pos = 0
    /\ toktab = <<>>
    /\ frames = <<>>
    /\ attempt = [base |-> 0, adv |-> 0]
    /\ iters = 0
    /\ last = Call("init", 0, None, NoExc)

Start ==
    /\ pos_un' = start
    /\ last' = Call("start", 0, None, NoExc)
    /\ attempt' = [base |-> pos_conf, adv |-> 0]
    /\ UNCHANGED <<input, codec, pos_conf, olist, pos, toktab, frames, iters>>

\* confirm(); every routine in progress has now seen a confirm().
Confirm ==
    /\ pos_conf' = confirm
    /\ frames' = [i \in 1..Len(frames) |-> [frames[i] EXCEPT !.confirmed = TRUE]]
    /\ last' = Call("confirm", 0, None, NoExc)
    /\ UNCHANGED <<input, codec, pos_un, olist, pos, toktab, attempt, iters>>

\* string() that moves the confirmed parse point too.
StringCommits(s) ==
    LET r == string(s) IN
    /\ pos_un' = r.pos_un
    /\ pos_conf' = r.pos_un
    /\ last' = Call("string", s, r.ret, NoExc)
    /\ attempt' = [attempt EXCEPT !.adv = @ + (IF r.ret.none THEN 0 ELSE Len(r.ret.val))]
    /\ UNCHANGED <<input, codec, olist, pos, toktab, frames, iters>>

String(s) ==
    LET r == string(s) IN
    /\ pos_un' = r.pos_un
    /\ last' = Call("string", s, r.ret, NoExc)
    /\ attempt' = [attempt EXCEPT !.adv = @ + (IF r.ret.none THEN 0 ELSE Len(r.ret.val))]
    /\ UNCHANGED <<input, codec, pos_conf, olist, pos, toktab, frames, iters>>

\* gen(): a fragment is appended to olist.
Gen(x) ==
    /\ Len(olist) < MaxOut
    /\ olist' = Append(olist, x)
    /\ last' = Call("gen", x, None, NoExc)
    /\ UNCHANGED <<input, codec, pos_conf, pos_un, pos, toktab, frames, attempt, iters>>

\* A parsing routine begins: it calls start().
Invoke ==
    /\ Len(frames) < MaxDepth
    /\ pos_un' = start
    /\ frames' = Append(frames,
                        [pos0 |-> pos_conf, olen0 |-> Len(olist), confirmed |-> FALSE])
    /\ last' = Call("invoke", 0, None, NoExc)
    /\ attempt' = [base |-> pos_conf, adv |-> 0]
    /\ UNCHANGED <<input, codec, pos_conf, olist, pos, toktab, iters>>

\* A parsing routine has succeeded: it calls confirm() and returns.
Succeed ==
    /\ Len(frames) > 0
    /\ pos_conf' = confirm
    /\ frames' = [i \in 1..(Len(frames) - 1) |->
                     [frames[i] EXCEPT !.confirmed = TRUE]]
    /\ last' = Call("succeed", frames[Len(frames)], None, NoExc)
    /\ UNCHANGED <<input, codec, pos_un, olist, pos, toktab, attempt, iters>>

\* A parsing routine has failed: it just returns.
Fail ==
    /\ Len(frames) > 0
    /\ frames' = SubSeq(frames, 1, Len(frames) - 1)
    /\ last' = Call("fail", frames[Len(frames)], None, NoExc)
    /\ UNCHANGED <<input, codec, pos_conf, pos_un, olist, pos, toktab, attempt, iters>>

NextParser ==
    \/ Start
    \/ Confirm
    \/ \E s \in Lits : String(s)
    \/ \E x \in ParserFrags : Gen(x)
    \/ Invoke
    \/ Succeed
    \/ Fail

Spec == InitParser /\ [][NextParser]_vars

\* ------------------------------------------------------- error diagnostics
\* The windows of PState.__str__: input[p:p+12], input[p-12:p], olist[-4:].
AheadWindow == 12
BehindWindow == 12
TailWindow == 4

MaxDiag == 13      \* longest input of a state whose diagnostic is rendered
MaxFrags == 5      \* most fragments in the olist of such a state

\* Inputs for the diagnostics: "abab..." and "baba..." of every length.
DiagInputs ==
    {[i \in 1..n |-> IF i % 2 = k THEN "a" ELSE "b"] : n \in 0..MaxDiag, k \in 0..1}

\* str(p): the position and the three windows that __str__ formats.
PState_str ==
    [pos    |-> pos,
     ahead  |-> Slice(input, pos, pos + AheadWindow),
     behind |-> Slice(input, pos - BehindWindow, pos),
     tail   |-> SliceFrom(olist, 0 - TailWindow)]

InitErr ==
    /\ input \in DiagInputs
    /\ toktab = <<>>
    /\ pos = 0
    /\ olist = <<>>
    /\ pos_conf = 0
    /\ pos_un = 0
    /\ codec = "None"
    /\ frames = <<>>
    /\ attempt = [base |-> 0, adv |-> 0]
    /\ iters = 0
    /\ last = Call("init", 0, None, NoExc)

\* p.generate(x), for an olist of up to MaxFrags fragments.
GenerateFrag(x) ==
    LET r == generate(olist, x) IN
    /\ Len(r.olist) <= MaxFrags
    /\ olist' = r.olist
    /\ last' = Call("generate", x, None, r.exc)
    /\ UNCHANGED <<input, toktab, pos, pos_conf, pos_un, codec, frames, attempt, iters>>

\* p.error(message): raises ParseError(message + ' ' + str(p)); the rendered
\* state the exception carries is kept as the call's result.
Error(message) ==
    /\ last' = Call("error", message, Some(PState_str), "ParseError")
    /\ UNCHANGED <<input, toktab, pos, olist, pos_conf, pos_un, codec, frames, attempt, iters>>

NextErr ==
    \/ \E n \in 1..2 : Consume(n)
    \/ \E x \in ParserFrags : GenerateFrag(x)
    \/ \E m \in Errs \ {"None"} : Error(m)

SpecErr == InitErr /\ [][NextErr]_vars

\* ------------------------------------------------------------- driver loop
\* One iteration of
\*     while not p.finished():
\*         if toktrans(p, toktab) is None: byte(p)
\* The loop ends when finished() is true or an exception leaves it.
Iterate ==
    LET t == toktrans(toktab)
        b == byte("None", "unexpected end of input")
        r == IF t.exc = NoExc /\ t.ret = None THEN b ELSE t
        f == IF t.exc = NoExc /\ t.ret = None THEN "byte" ELSE "toktrans"
    IN  /\ ~finished
        /\ last.exc = NoExc
        /\ iters < MaxIter
        /\ pos' = r.pos
        /\ olist' = r.olist
        /\ iters' = iters + 1
        /\ last' = Call("iterate", f, r.ret, r.exc)
        /\ UNCHANGED <<input, toktab, pos_conf, pos_un, codec, frames, attempt>>

NextDrive == Iterate

SpecDrive == InitTok /\ [][NextDrive]_vars

\* ------------------------------------------------------------------ claims
\* The input that remained before the last call.
OldRemain == SliceFrom(input, last.pos0)

\* k is a prefix of r, element by element.
IsPrefix(k, r) == Len(k) <= Len(r) /\ \A i \in 1..Len(k) : k[i] = r[i]

\* The keys of the token table that are prefixes of the input remaining
\* before the last call, and the longest of them.
MatchingKeys ==
    {toktab[i][1] : i \in {j \in 1..Len(toktab) : IsPrefix(toktab[j][1], OldRemain)}}
LongestKey == CHOOSE k \in MatchingKeys : \A k2 \in MatchingKeys : Len(k2) <= Len(k)

\* The value of the first entry of the token table with key k.
FirstValue(k) ==
    LET i == CHOOSE j \in 1..Len(toktab) :
                 /\ toktab[j][1] = k
                 /\ \A h \in 1..(j - 1) : toktab[h][1] # k
    IN  toktab[i][2]

\* generate() accepted fragment y before the last call.
Accepted(y) == Len(last.olist0) = 0 \/ IsInstance(y, last.olist0[1])

\* C1 (as claimed): whenever a routine run as start(); r = m(); confirm() on
\* success returns a fail, pos_conf is what it was at the routine's start(),
\* whatever m did, inner start()/confirm() sequences included.
C1_CheckpointLaw ==
    last.op = "fail" => pos_conf = last.arg.pos0

\* C1 (amended): whenever such a routine returns a fail and no confirm() was
\* called since its start(), pos_conf is what it was at the routine's start().
C1_CheckpointLawNoConfirm ==
    (last.op = "fail" /\ ~last.arg.confirmed) => pos_conf = last.arg.pos0

\* C1 witness: a routine failed, without a confirm(), after a string() of its
\* own had advanced the unconfirmed parse point.
C1_Witness ==
    /\ last.op = "fail"
    /\ ~last.arg.confirmed
    /\ pos_un > pos_conf

\* C2: a fragment generated between a start() and the routine's failing
\* return (no confirm()) is not in the parser's output: olist is as long as
\* it was at that start().
C2_AbandonedOutputDropped ==
    (last.op = "fail" /\ ~last.arg.confirmed) => Len(olist) = last.arg.olen0

\* C3: consume(n) with 0 <= n <= len(input) - pos raises nothing, moves pos by
\* exactly n, returns the n elements input[old pos .. old pos + n - 1], leaves
\* olist alone, and what it returns followed by the new remain() is the old
\* remain().
C3_ConsumeWithin ==
    (last.op = "consume" /\ 0 <= last.arg /\ last.arg <= Len(input) - last.pos0)
    => /\ last.exc = NoExc
       /\ pos = last.pos0 + last.arg
       /\ ~last.ret.none
       /\ Len(last.ret.val) = last.arg
       /\ \A k \in 1..last.arg :
              /\ last.pos0 + k \in 1..Len(input)
              /\ last.ret.val[k] = input[last.pos0 + k]
       /\ olist = last.olist0
       /\ last.ret.val \o remain = OldRemain

\* C4: consume(n) with n > len(input) - pos raises a ParseError and leaves pos
\* and olist as they were.
C4_ConsumePastEnd ==
    (last.op = "consume" /\ last.arg > Len(input) - last.pos0)
    => /\ last.exc = "ParseError"
       /\ pos = last.pos0
       /\ olist = last.olist0

\* C4 witness: a consume() past the end of input, after some input was
\* consumed, raised.
C4_Witness ==
    /\ last.op = "consume"
    /\ last.arg > Len(input) - last.pos0
    /\ last.pos0 > 0
    /\ last.exc = "ParseError"

\* C5 (as claimed): toktrans with a table sorted by toksort, when some key is
\* a prefix of the remaining input, consumes the length of the longest such
\* key, appends a value the table has for that key and returns that key.
C5_LongestMatch ==
    (last.op = "toktrans" /\ last.arg /\ MatchingKeys # {})
    => /\ last.exc = NoExc
       /\ pos = last.pos0 + Len(LongestKey)
       /\ last.ret = Some(LongestKey)
       /\ \E i \in 1..Len(toktab) :
              /\ toktab[i][1] = LongestKey
              /\ olist = Append(last.olist0, toktab[i][2])

\* C5 (amended): the same when generate() accepts the value of the table's
\* first entry for the longest matching key; when it does not, toktrans
\* raises a ParseError and olist is left alone.
C5_LongestMatchAccepted ==
    (last.op = "toktrans" /\ last.arg /\ MatchingKeys # {})
    => IF Accepted(FirstValue(LongestKey))
       THEN /\ last.exc = NoExc
            /\ pos = last.pos0 + Len(LongestKey)
            /\ last.ret = Some(LongestKey)
            /\ olist = Append(last.olist0, FirstValue(LongestKey))
       ELSE /\ last.exc = "ParseError"
            /\ olist = last.olist0

\* C5 witness: the table lists a key before a longer key it is a prefix of,
\* both match, and toktrans on the sorted table returned the longer one.
C5_Witness ==
    /\ last.op = "toktrans"
    /\ last.arg
    /\ Len(toktab) >= 2
    /\ toktab[1][1] = <<"a">>
    /\ toktab[2][1] = <<"a", "b">>
    /\ last.ret = Some(<<"a", "b">>)
    /\ pos = last.pos0 + 2

\* C6: toktrans with a table none of whose keys is a prefix of the remaining
\* input returns None, raises nothing and leaves pos and olist alone.
C6_NoMatchNoEffect ==
    (last.op = "toktrans" /\ MatchingKeys = {})
    => /\ last.ret = None
       /\ last.exc = NoExc
       /\ pos = last.pos0
       /\ olist = last.olist0

\* C6 witness: toktrans failed on a table of two entries with input left and
\* output already generated.
C6_Witness ==
    /\ last.op = "toktrans"
    /\ MatchingKeys = {}
    /\ Len(toktab) >= 2
    /\ Len(OldRemain) > 0
    /\ Len(olist) > 0
    /\ last.ret = None

\* C7: whenever byte or toktrans raises a ParseError, pos is what it was
\* before the call.
C7_ErrorConsumesNothing ==
    (last.op \in {"byte", "toktrans"} /\ last.exc = "ParseError")
    => pos = last.pos0

\* C8: generate(y) on a non-empty olist appends y iff y is an instance of the
\* type of olist[0], and otherwise raises a ParseError leaving olist and pos
\* alone; so every fragment of olist is an instance of the type of olist[0].
C8_Homogeneous ==
    /\ \A i \in 1..Len(olist) : IsSubclass(olist[i].ty, olist[1].ty)
    /\ (last.op = "generate" /\ Len(last.olist0) > 0)
       => /\ pos = last.pos0
          /\ IF IsSubclass(last.arg.ty, last.olist0[1].ty)
             THEN last.exc = NoExc /\ olist = Append(last.olist0, last.arg)
             ELSE last.exc = "ParseError" /\ olist = last.olist0

\* C8 witness: a fragment of another type was refused after a fragment of a
\* subtype had been appended.
C8_Witness ==
    /\ last.op = "generate"
    /\ last.exc = "ParseError"
    /\ Len(olist) = 2
    /\ olist[1].ty = "str"
    /\ olist[2].ty = "S"
    /\ last.arg.ty = "bytes"

\* C9: 0 <= pos <= len(input) in every state of a PState.
C9_PosInRange == 0 <= pos /\ pos <= Len(input)

\* C10: pos_conf <= pos_un <= len(input) in every state of a Parser.
C10_PointsOrdered == pos_conf <= pos_un /\ pos_un <= Len(input)

\* C10 witness: a start() took the unconfirmed parse point back from the end
\* of input to a confirmed parse point that string() and confirm() had moved.
C10_Witness ==
    /\ last.op = "start"
    /\ last.un0 = Len(input)
    /\ pos_un < last.un0
    /\ pos_conf > 0

\* C11: start() and string(s), and every call but confirm(), leave pos_conf
\* and remain() as they were; a string() that matches advances pos_un alone,
\* by the length of what it returns.
C11_OnlyConfirmCommits ==
    /\ last.op \notin {"init", "confirm", "succeed"}
       => /\ pos_conf = last.conf0
          /\ ParserRemain = SubSeq(input, last.conf0 + 1, Len(input))
    /\ (last.op = "string" /\ ~last.ret.none)
       => pos_un = last.un0 + Len(last.ret.val)

\* C11 witness: a string() matched and advanced pos_un from a confirmed
\* parse point that an earlier confirm() had moved.
C11_Witness ==
    /\ last.op = "string"
    /\ ~last.ret.none
    /\ pos_un > last.un0
    /\ last.conf0 > 0
    /\ pos_conf = last.conf0

\* The literal of the last string() call as the input spells it: itself for
\* a str input, its native codes for a bytes input.
Spelled ==
    IF codec = "None" THEN last.arg
    ELSE [i \in 1..Len(last.arg) |-> IF last.arg[i] = "a" THEN "A" ELSE "B"]

\* The input holds the literal of the last string() call at the unconfirmed
\* parse point it was called at.
LiteralAhead ==
    /\ Len(Spelled) <= Len(input) - last.un0
    /\ \A i \in 1..Len(Spelled) : input[last.un0 + i] = Spelled[i]

\* C12: string(s) advances pos_un by len(s) and returns the matched slice
\* when the len(s) elements at pos_un exist and equal s (through the codec
\* for a bytes input); otherwise it returns None, raises nothing and leaves
\* pos_un alone. Either way pos_conf and olist are left alone.
C12_StringMatches ==
    last.op = "string"
    => /\ last.exc = NoExc
       /\ pos_conf = last.conf0
       /\ olist = last.olist0
       /\ IF LiteralAhead
          THEN /\ pos_un = last.un0 + Len(last.arg)
               /\ last.ret = Some(SubSeq(input, last.un0 + 1, last.un0 + Len(last.arg)))
          ELSE /\ pos_un = last.un0
               /\ last.ret = None

\* C12 witness: a two-character literal matched a bytes input through the
\* codec.
C12_Witness ==
    /\ last.op = "string"
    /\ codec = "charset"
    /\ last.arg = <<"a", "b">>
    /\ last.ret = Some(<<"A", "B">>)
    /\ pos_un = last.un0 + 2

C13_Byte ==
    last.op = "byte"
    => IF last.pos0 >= Len(input)
       THEN /\ pos = last.pos0
            /\ olist = last.olist0
            /\ last.ret = None
            /\ last.exc = (IF last.arg.err = "None" THEN NoExc ELSE "ParseError")
       ELSE /\ last.exc = NoExc
            /\ pos = last.pos0 + 1
            /\ last.pos0 + 1 \in 1..Len(input)
            /\ last.ret = Some(input[last.pos0 + 1])
            /\ olist = (IF last.arg.genf = "None" THEN last.olist0
                        ELSE Append(last.olist0,
                                    [ty |-> last.arg.genf,
                                     val |-> <<input[last.pos0 + 1]>>]))

\* C14: peek() raises nothing and leaves pos and olist alone; it returns the
\* element at pos when pos < len(input) and None at the end of input; it
\* returns None exactly when finished(), which is exactly when
\* pos = len(input).
C14_Peek ==
    last.op = "peek"
    => /\ last.exc = NoExc
       /\ pos = last.pos0
       /\ olist = last.olist0
       /\ pos < Len(input)
          => /\ pos + 1 \in 1..Len(input)
             /\ last.ret = Some(input[pos + 1])
       /\ (last.ret = None) <=> finished
       /\ finished <=> (pos = Len(input))

\* The contents of the fragments of ol, one after the other.
RECURSIVE Concat(_)
Concat(ol) ==
    IF Len(ol) = 0 THEN <<>>
    ELSE Concat(SubSeq(ol, 1, Len(ol) - 1)) \o ol[Len(ol)].val

\* C15: output() returns None when olist is empty and otherwise the contents
\* of its fragments in the order they were appended; it leaves pos and olist
\* alone.
C15_Output ==
    last.op = "output"
    => /\ last.exc = NoExc
       /\ pos = last.pos0
       /\ olist = last.olist0
       /\ last.ret = (IF Len(olist) = 0 THEN None ELSE Some(Concat(olist)))

\* C15 witness: output() joined two fragments of different contents, the
\* first a str and the second of its subtype.
C15_Witness ==
    /\ last.op = "output"
    /\ Len(olist) = 2
    /\ olist[1] = [ty |-> "str", val |-> <<"a">>]
    /\ olist[2] = [ty |-> "S", val |-> <<"b">>]
    /\ last.ret = Some(<<"a", "b">>)

\* The table the last toktrans was given: toksort(toktab) or toktab itself.
GivenTable == IF last.arg THEN toksort(toktab, 0, 1) ELSE toktab

\* The entries of that table whose key is a prefix of the input remaining
\* before the call, and the first of them in table order.
MatchingEntries ==
    {j \in 1..Len(GivenTable) : IsPrefix(GivenTable[j][1], OldRemain)}
FirstEntry == CHOOSE j \in MatchingEntries : \A h \in MatchingEntries : j <= h

\* What toktrans did with entry e of the table it was given.
TookEntry(e) ==
    /\ last.exc = NoExc
    /\ pos = last.pos0 + Len(e[1])
    /\ last.ret = Some(e[1])
    /\ olist = Append(last.olist0, e[2])

\* C16 (as claimed): for any table, sorted or not, toktrans takes the first
\* entry in table order whose key is a prefix of the remaining input: pos
\* grows by the length of that key, that entry's value is the one fragment
\* appended to olist, and that key is returned.
C16_FirstMatch ==
    (last.op = "toktrans" /\ MatchingEntries # {})
    => TookEntry(GivenTable[FirstEntry])

\* C16 (amended): the same when generate() accepts the value of that first
\* matching entry; when it does not, toktrans raises a ParseError and olist is
\* left alone.
C16_FirstMatchAccepted ==
    last.op = "toktrans"
    => LET t == GivenTable
           m == {j \in 1..Len(t) : IsPrefix(t[j][1], OldRemain)}
           f == CHOOSE j \in m : \A h \in m : j <= h
       IN  m # {}
           => IF Accepted(t[f][2])
              THEN TookEntry(t[f])
              ELSE /\ last.exc = "ParseError"
                   /\ olist = last.olist0

\* C16 witness: an unsorted table lists a key before a longer key it is a
\* prefix of, both match, and toktrans returned the first, shorter key.
C16_Witness ==
    /\ last.op = "toktrans"
    /\ ~last.arg
    /\ Len(toktab) >= 2
    /\ toktab[1][1] = <<"a">>
    /\ toktab[2][1] = <<"a", "b">>
    /\ IsPrefix(<<"a", "b">>, OldRemain)
    /\ last.ret = Some(<<"a">>)
    /\ pos = last.pos0 + 1
    /\ olist = Append(last.olist0, toktab[1][2])

\* The (field0, field1) projections of toktab's tuples, in toktab's order.
Projected(f0, f1) == [i \in 1..Len(toktab) |-> <<toktab[i][f0 + 1], toktab[i][f1 + 1]>>]

\* How often e occurs in s, and the entries of s with a key of length n, in
\* the order s has them.
Count(e, s) == Cardinality({i \in 1..Len(s) : s[i] = e})
OfLength(s, n) == SelectSeq(s, LAMBDA e : Len(e[1]) = n)

\* toksort(toktab, 0, f1) is a permutation of the projections, by
\* non-increasing key length, equal lengths in their original order, and no
\* key after one of its strict prefixes.
SortedRight(f1) ==
    LET t == toksort(toktab, 0, f1)
        p == Projected(0, f1)
    IN  /\ Len(t) = Len(p)
        /\ \A i \in 1..Len(p) : Count(p[i], t) = Count(p[i], p)
        /\ \A i, j \in 1..Len(t) : i < j => Len(t[i][1]) >= Len(t[j][1])
        /\ \A n \in 0..MaxLen : OfLength(t, n) = OfLength(p, n)
        /\ \A i, j \in 1..Len(t) :
               (IsPrefix(t[i][1], t[j][1]) /\ t[i][1] # t[j][1]) => j < i

\* C17: toksort(table, field0, field1) returns a permutation of the
\* (field0, field1) projections of the table's tuples (same multiset), by
\* non-increasing key length, entries of equal key length in their original
\* relative order, so that no key comes after one of its strict prefixes;
\* stated of the table of every toktrans call that sorted it.
C17_ToksortOrder ==
    (last.op = "toktrans" /\ last.arg) => SortedRight(0) /\ SortedRight(1)

\* C17 witness: toktrans was given toksort() of a table that lists a key
\* before a longer key it is a prefix of, and toksort put the longer first.
C17_Witness ==
    /\ last.op = "toktrans"
    /\ last.arg
    /\ Len(toktab) = 2
    /\ toktab[1][1] = <<"a">>
    /\ toktab[2][1] = <<"a", "b">>
    /\ toksort(toktab, 0, 1) = <<toktab[2], toktab[1]>>

\* The smaller and the larger of two numbers.
Min(a, b) == IF a <= b THEN a ELSE b
Max(a, b) == IF a >= b THEN a ELSE b

\* C18: the diagnostic error() renders at position p, for every p in
\* 0..len(input), p < 12 included, shows input[p .. min(p+12, len)-1] ahead,
\* the min(12, p) elements input[max(0, p-12) .. p-1] behind, and the last
\* min(4, len(olist)) output fragments.
C18_Diagnostic ==
    (last.op = "error" /\ 0 <= pos /\ pos <= Len(input))
    => /\ last.exc = "ParseError"
       /\ last.ret.val.pos = pos
       /\ last.ret.val.ahead = SubSeq(input, pos + 1, Min(pos + 12, Len(input)))
       /\ Len(last.ret.val.behind) = Min(12, pos)
       /\ last.ret.val.behind = SubSeq(input, Max(0, pos - 12) + 1, pos)
       /\ last.ret.val.tail =
              SubSeq(olist, Len(olist) - Min(4, Len(olist)) + 1, Len(olist))

\* The token table has an entry with an empty key.
HasEmptyKey == \E i \in 1..Len(toktab) : toktab[i][1] = <<>>

\* C20: every successful byte() and every successful toktrans() with a
\* non-empty key strictly increases pos, and an entry with an empty key
\* matches in every state, without advancing pos when it is the one taken (so
\* byte() is never reached); with no empty key in the table and no generate()
\* error, the driver loop has run at most len(input) iterations, each of
\* which moved pos forward, and while finished() is false its next iteration
\* runs: it ends, with finished() true, within len(input) iterations.
C20_Progress ==
    /\ (last.op = "iterate" /\ last.exc = NoExc)
       => /\ ~last.ret.none
          /\ last.arg = "byte" => pos = last.pos0 + 1
          /\ (last.arg = "toktrans" /\ last.ret.val # <<>>)
             => pos = last.pos0 + Len(last.ret.val) /\ pos > last.pos0
          /\ (last.arg = "toktrans" /\ last.ret.val = <<>>) => pos = last.pos0
    /\ (last.op = "iterate" /\ HasEmptyKey) => last.arg = "toktrans"
    /\ (~HasEmptyKey /\ last.exc = NoExc)
       => /\ iters <= pos
          /\ pos <= Len(input)
          /\ iters <= Len(input)
          /\ finished <=> pos = Len(input)
          /\ finished \/ ENABLED Iterate

\* C20 witness: the loop ran len(input) iterations over the longest input,
\* one by toktrans and one by byte, and ended with finished() true.
C20_Witness ==
    /\ last.op = "iterate"
    /\ last.exc = NoExc
    /\ ~HasEmptyKey
    /\ Len(toktab) > 0
    /\ Len(input) = MaxLen
    /\ iters = Len(input)
    /\ Len(olist) = 1
    /\ finished
====
